---- MODULE Spec2Model ----
(***************************************************************************)
(* Model of the ranged download engine of weaming/mget.                    *)
(*                                                                         *)
(* The repository carries two generations of the engine:                   *)
(*   - src/downloader.go      : bounded retry, sync.WaitGroup barrier,     *)
(*                              locked Status, stopChan for the sampler;   *)
(*   - src/unnamed/part_005   : pause/resume capable, retry in an          *)
(*                              unconditional loop, channel barrier,       *)
(*                              unlocked Status.                           *)
(* The variable "variant" says which one a behaviour runs.  Definitions    *)
(* named after part_005 carry the suffix 5.                                *)
(***************************************************************************)
EXTENDS Integers, Sequences, FiniteSets, TLC

VARIABLES
    variant,     \* "downloader" (src/downloader.go) or "part_005"
    MaxThread,   \* number of blocks / workers of a run
    Length,      \* real length of the remote resource
    Size,        \* f.Size
    BlockList,   \* f.BlockList, a sequence of [Begin, End]
    Downloaded,  \* Status.Downloaded
    Speeds,      \* Status.Speeds
    paused,      \* f.paused (part_005)
    stopChan,    \* f.stopChan: "open" or "closed" (downloader.go)
    file,        \* output file: offset -> source offset of the byte, -1 = hole
    wcount,      \* history: how often an offset was written (saturates at 2)
    server,      \* "up", or "down": the connection is permanently broken
    faults,      \* history: inexact responses and disk errors so far
    started,     \* history: number of onStart events
    cycles,      \* one record per Start/Resume cycle (the controller side)
    ctor,        \* the call of NewFileDownloader: arguments, HEAD answer, outcome
    handlers,    \* the callback slots onStart, onFinish, ... and their goroutines
    cli,         \* the goroutines of the command line program around the task
    wk           \* wk[c][i]: the worker goroutine of cycle c for block i

vars == <<variant, MaxThread, Length, Size, BlockList, Downloaded, Speeds,
          paused, stopChan, file, wcount, server, faults, started, cycles,
          ctor, handlers, cli, wk>>

----------------------------------------------------------------------------
(* Bounds of the model *)

\* largest resource length of the concurrent specifications
MaxSize == 3
\* largest number of threads of the concurrent specifications
MaxT == 2
\* largest size and thread count of the planner specification
PlanMaxSize == 40
PlanMaxT == 16
\* Resume calls of a run of part_005
MaxResume == 1
\* faults (inexact responses, disk errors) a run meets while the server is up
MaxFaults == 1
\* largest size argument and content length of the constructor specification
CtorMaxSize == 4

(* Program constants *)
MaxRetries == 3

\* the read buffer (1024 bytes in the source) scaled to the model's sizes
CacheSize == 2

\* number of file offsets the model tracks: every cycle and every fault
\* can add one more body to an open-ended block
FileCap == (MaxResume + 1 + MaxFaults) * MaxSize

NoByte == 0 - 1

Min(a, b) == IF a < b THEN a ELSE b
Sat2(n) == IF n >= 2 THEN 2 ELSE n + 1

\* no inexact response and no disk error so far
clean == faults = 0 /\ server = "up"

----------------------------------------------------------------------------
(* Range planner: the block computation of Start *)

RECURSIVE SumLen(_)
SumLen(bl) == IF bl = <<>> THEN 0
              ELSE (bl[1].End - bl[1].Begin + 1) + SumLen(Tail(bl))

\* src/downloader.go Start, lines 105-118: appends to the existing list and
\* corrects the entry at index MaxThread-1
RangePlan_NoFix(list, S, T) ==
    IF S <= 0 THEN Append(list, [Begin |-> 0, End |-> 0 - 1])
    ELSE LET blockSize == S \div T
         IN list \o [i \in 1..T |->
                       [Begin |-> blockSize * (i - 1),
                        End   |-> blockSize * (i - 1) + blockSize - 1]]

RangePlan(list, S, T) ==
    IF S <= 0 THEN Append(list, [Begin |-> 0, End |-> 0 - 1])
    ELSE LET blockSize == S \div T
             l2 == list \o [i \in 1..T |->
                              [Begin |-> blockSize * (i - 1),
                               End   |-> blockSize * (i - 1) + blockSize - 1]]
         IN [l2 EXCEPT ![T].End = S - 1]

\* part_005 Start, lines 82-97: begin is chained from the previous end
RECURSIVE Chain5(_, _, _, _, _)
Chain5(list, blockSize, begin, i, n) ==
    IF i >= n THEN list
    ELSE LET end == (i + 1) * blockSize - 1
         IN Chain5(Append(list, [Begin |-> begin, End |-> end]),
                   blockSize, end + 1, i + 1, n)

RangePlan5(list, S, T) ==
    IF S <= 0 THEN Append(list, [Begin |-> 0, End |-> 0 - 1])
    ELSE LET blockSize == S \div T
             l2 == Chain5(list, blockSize, 0, 0, T)
         IN [l2 EXCEPT ![T].End = l2[T].End + (S - l2[T].End - 1)]

\* f.Size after planning
SizeAfterPlan(S) == IF S <= 0 THEN 1 ELSE S

----------------------------------------------------------------------------
(* The HTTP server: what one GET can answer *)

\* a response: the connection succeeded or not (conn), the body delivers
\* len bytes of the resource starting at source offset from, and the body
\* then ends with io.EOF or with a read error (fin)
Resp(conn, from, len, fin) == [conn |-> conn, from |-> from, len |-> len, fin |-> fin]

\* the answer of a server that honours the request exactly: the requested
\* range, or the whole body when no Range header was sent (end = -1)
ExactResp(b, e) ==
    IF e = 0 - 1 THEN Resp(TRUE, 0, Length, "EOF")
    ELSE Resp(TRUE, b, IF e - b + 1 > 0 THEN e - b + 1 ELSE 0, "EOF")

\* everything a server that is up may answer to a request for [b, e]
AnyResponse(b, e) ==
    LET ex == ExactResp(b, e)
    IN    {ex}
       \cup {Resp(FALSE, 0, 0, "err")}                      \* Do() fails
       \cup {Resp(TRUE, ex.from, k, "err") : k \in 0..(ex.len - 1)}  \* broken
       \cup {Resp(TRUE, ex.from, k, "EOF") : k \in 0..(ex.len - 1)}  \* closed early
       \cup {Resp(TRUE, 0, Length, "EOF")}                  \* Range ignored
       \cup (IF e # 0 - 1 /\ b >= 0 /\ b < Length /\ Length - b > ex.len
             THEN {Resp(TRUE, b, Length - b, "EOF")}        \* over-long body
             ELSE {})

\* the answers open to a request now: a broken connection fails every
\* request; a server that is up answers exactly once the faults are used up
Responses(b, e) ==
    IF server = "down" THEN {Resp(FALSE, 0, 0, "err")}
    ELSE IF faults < MaxFaults THEN AnyResponse(b, e)
    ELSE {ExactResp(b, e)}

FaultsAfter(r, b, e) ==
    IF server = "up" /\ r # ExactResp(b, e) THEN faults + 1 ELSE faults

\* the connection breaks for good
ServerDown ==
    /\ server = "up"
    /\ cycles # <<>>
    /\ server' = "down"
    /\ UNCHANGED <<cli, ctor, handlers, variant, MaxThread, Length, Size, BlockList, Downloaded,
                   Speeds, paused, stopChan, file, wcount, faults, started,
                   cycles, wk>>

----------------------------------------------------------------------------
(* Records *)

\* a worker goroutine before its first downloadBlock call
NewWorker ==
    [pc       |-> "call",  \* "call", "read", "store", "sleep", "done"
     retries  |-> 0,       \* the retries local of downloader.go
     begin    |-> 0,       \* locals of downloadBlock
     end      |-> 0,
     rem      |-> 0,       \* bytes the response body still delivers
     src      |-> 0,       \* source offset of the next body byte
     fin      |-> "EOF",   \* how the body ends
     buf      |-> 0,       \* part_005: bufSize between the load and the store
     pe       |-> "nil",   \* part_005: e between the load and the store
     result   |-> "none",  \* "none", "ok", "failed", "paused"
     attempts |-> 0,       \* history: downloadBlock calls (see SatA)
     errs     |-> 0,       \* history: onError events of this block (see SatA)
     orig     |-> 0 - 1,   \* history: Begin at the first request
     hi       |-> 0 - 1,   \* history: first offset this worker has not written
     req      |-> 0 - 1,   \* history: begin of the latest request
     reqHi    |-> 0 - 1,   \* history: hi when the latest request was made
     counted  |-> 0,       \* history: bytes this worker added to Downloaded
     ld       |-> 0]       \* part_005: Downloaded as loaded by the racy +=

NewCycle(kind, pc, n, sampler) ==
    [kind    |-> kind,     \* "start" or "resume"
     pc      |-> pc,       \* "spawn", "wait", "done", "panic", "error"
     event   |-> "none",   \* "none", "finish", "pause"
     wg      |-> n,        \* downloader.go: the WaitGroup counter
     ok      |-> 0,        \* part_005: values sent on the ok channel
     n       |-> n,        \* workers spawned
     sampler |-> sampler,  \* "none", "init", "run", "sleep", "exit"
     old     |-> 0]        \* the sampler's old

\* history counters are exact up to here; beyond it they keep counting
\* between AttemptCap and AttemptCap + 1, so that a goroutine that goes on
\* retrying goes on changing the state
AttemptCap == MaxRetries + 1
SatA(n) == IF n >= AttemptCap + 1 THEN AttemptCap ELSE n + 1

WriteAt(f, begin, n, src) ==
    [o \in DOMAIN f |-> IF o >= begin /\ o < begin + n THEN src + (o - begin) ELSE f[o]]

CountAt(wc, begin, n) ==
    [o \in DOMAIN wc |-> IF o >= begin /\ o < begin + n THEN Sat2(wc[o]) ELSE wc[o]]

\* a goroutine that has returned: its locals are dead, the history stays
Gone(w, result) ==
    [w EXCEPT !.pc = "done", !.result = result, !.begin = 0, !.end = 0,
              !.rem = 0, !.src = 0, !.fin = "EOF", !.buf = 0, !.pe = "nil",
              !.ld = 0]

SetW_Abort(c, i, w) ==
    [wk EXCEPT ![c] = [j \in DOMAIN wk[c] |->
        IF j = i THEN w
        ELSE IF w.result = "failed" /\ wk[c][j].pc # "done"
             THEN Gone(wk[c][j], "failed") ELSE wk[c][j]]]

SetW(c, i, w) == [wk EXCEPT ![c][i] = w]

Cyc == DOMAIN cycles
Blk(c) == DOMAIN wk[c]

\* a task that was not made by a call of NewFileDownloader followed here
NoCtor == [size |-> 0, head |-> [ok |-> FALSE, len |-> 0], headed |-> FALSE,
           pc |-> "none"]

\* a task that is not driven by the command line program of src/main.go
NoCli == [main |-> "none", sig |-> "none", intr |-> "none", wg |-> 0,
          closed |-> FALSE, blank |-> FALSE, removed |-> FALSE]

\* the callback slots of both engines
Slots == {"onStart", "onFinish", "onPause", "onResume", "onError"}

\* a slot: reg, a callback is registered (the field is not nil); busy, a
\* goroutine started for it has not returned; inline, an emitter is inside
\* a call of it
NoHandlers == [s \in Slots |-> [reg |-> FALSE, busy |-> FALSE, inline |-> FALSE]]
AllHandlers == [s \in Slots |-> [reg |-> TRUE, busy |-> FALSE, inline |-> FALSE]]

\* emit / emitErr (src/downloader.go 253-263), touch / touchOnError
\* (part_005 301-312): if fn != nil { go fn() }
Emit_Inline(h, s) ==
    IF h[s].reg THEN [h EXCEPT ![s].busy = TRUE, ![s].inline = TRUE] ELSE h

Emit(h, s) ==
    IF h[s].reg THEN [h EXCEPT ![s].busy = TRUE] ELSE h

\* no goroutine of the engine is waiting for a callback to return
Free == \A s \in Slots : ~handlers[s].inline

\* the process has not crashed
Alive ==
    /\ \A c \in Cyc : cycles[c].pc # "panic"
    /\ \A c \in Cyc : \A i \in Blk(c) : wk[c][i].pc # "panic"
    /\ cli.sig # "exit"

----------------------------------------------------------------------------
(* Init *)

InitTask(V, H) ==
    /\ variant \in V
    /\ ctor = NoCtor
    /\ handlers \in H
    /\ MaxThread \in 1..MaxT
    /\ Length \in 1..MaxSize
    /\ Size \in {Length, 0}
    /\ BlockList = <<>>
    /\ Downloaded = 0
    /\ Speeds = 0
    /\ paused = FALSE
    /\ stopChan = "open"
    /\ file = [o \in 0..(FileCap - 1) |-> NoByte]
    /\ wcount = [o \in 0..(FileCap - 1) |-> 0]
    /\ server = "up"
    /\ faults = 0
    /\ started = 0
    /\ cycles = <<>>
    /\ wk = <<>>

\* a task used as a library
InitHandlers(V, H) == InitTask(V, H) /\ cli = NoCli

\* a task on which no callback has been registered
InitWith(V) == InitHandlers(V, {NoHandlers})

Init == InitWith({"downloader"})

----------------------------------------------------------------------------
(* src/downloader.go: the controller *)

\* Start, lines 104-123, with the spawning part of download, lines 126-151:
\* plan the blocks, emit onStart, start the sampler, wg.Add(len(BlockList))
\* and one goroutine per block
Start ==
    /\ variant = "downloader"
    /\ Alive /\ Free
    /\ cycles = <<>>
    /\ LET bl == RangePlan(BlockList, Size, MaxThread)
       IN /\ BlockList' = bl
          /\ cycles' = Append(cycles, NewCycle("start", "wait", Len(bl), "init"))
          /\ wk' = Append(wk, [i \in 1..Len(bl) |-> NewWorker])
    /\ Size' = SizeAfterPlan(Size)
    /\ started' = started + 1
    /\ handlers' = Emit(handlers, "onStart")
    /\ UNCHANGED <<cli, ctor, variant, MaxThread, Length, Downloaded, Speeds, paused,
                   stopChan, file, wcount, server, faults>>

\* wg.Wait() returns when the counter is zero
BarrierOpen_Early(cy) == cy.wg <= 1

BarrierOpen(cy) == cy.wg = 0

\* download, lines 153-155: wg.Wait(); close(f.stopChan); f.emit(f.onFinish).
\* Closing a closed channel panics.
Join(c) ==
    /\ variant = "downloader"
    /\ Alive /\ Free
    /\ c \in Cyc
    /\ cycles[c].pc = "wait"
    /\ BarrierOpen(cycles[c])
    /\ IF stopChan = "open"
       THEN /\ stopChan' = "closed"
            /\ cycles' = [cycles EXCEPT ![c].pc = "done", ![c].event = "finish"]
       ELSE /\ stopChan' = stopChan
            /\ cycles' = [cycles EXCEPT ![c].pc = "panic"]
    /\ handlers' = IF stopChan = "open" THEN Emit(handlers, "onFinish") ELSE handlers
    /\ UNCHANGED <<cli, ctor, variant, MaxThread, Length, Size, BlockList, Downloaded,
                   Speeds, paused, file, wcount, server, faults, started, wk>>

----------------------------------------------------------------------------
(* src/downloader.go: the worker goroutine, lines 131-150, and downloadBlock *)

\* lines 139-146: a failed attempt.  retries++, emitErr, then either give
\* up (retries >= MaxRetries) or sleep retries seconds and try again
FailRec_EmitLast(w) ==
    LET r == w.retries + 1
        w2 == [w EXCEPT !.retries = r]
    IN IF r >= MaxRetries THEN Gone([w2 EXCEPT !.errs = SatA(w.errs)], "failed")
       ELSE [w2 EXCEPT !.pc = "sleep"]

FailRec(w) ==
    LET r == w.retries + 1
        w2 == [w EXCEPT !.retries = r, !.errs = SatA(w.errs)]
    IN IF r >= MaxRetries THEN Gone(w2, "failed") ELSE [w2 EXCEPT !.pc = "sleep"]

\* line 148: downloadBlock returned nil
OkRec(w) == Gone(w, "ok")

\* the deferred wg.Done() of a goroutine that has returned
Returned(c, w) ==
    IF w.pc = "done" THEN [cycles EXCEPT ![c].wg = cycles[c].wg - 1] ELSE cycles

\* the begin a call of downloadBlock starts from, lines 161-162
BeginOf(i, w) == BlockList[i].Begin

\* downloadBlock, lines 161-178: read the block, send the request
Request(c, i) ==
    /\ variant = "downloader"
    /\ Alive /\ Free
    /\ c \in Cyc /\ i \in Blk(c)
    /\ wk[c][i].pc = "call"
    /\ LET w == wk[c][i]
           b == BeginOf(i, w)
           e == BlockList[i].End
           h == IF w.hi = 0 - 1 THEN b ELSE w.hi
           w1 == [w EXCEPT !.attempts = SatA(w.attempts),
                           !.begin = b, !.end = e,
                           !.orig = IF w.orig = 0 - 1 THEN b ELSE w.orig,
                           !.hi = h, !.req = b, !.reqHi = h]
       IN \E r \in Responses(b, e) :
             /\ faults' = FaultsAfter(r, b, e)
             /\ handlers' = IF r.conn THEN handlers ELSE Emit(handlers, "onError")
             /\ LET w2 == IF r.conn
                          THEN [w1 EXCEPT !.pc = "read", !.rem = r.len,
                                          !.src = r.from, !.fin = r.fin]
                          ELSE FailRec(w1)
                IN /\ wk' = SetW(c, i, w2)
                   /\ cycles' = Returned(c, w2)
    /\ UNCHANGED <<cli, ctor, variant, MaxThread, Length, Size, BlockList, Downloaded,
                   Speeds, paused, stopChan, file, wcount, server, started>>

\* lines 182-199: one Read of the body and the cut of an over-long chunk
ChunkN(w) == Min(CacheSize, w.rem)
ChunkE(w) == IF w.rem - ChunkN(w) = 0 THEN w.fin ELSE "nil"
Truncates_Off(w) == FALSE

Truncates(w) == w.end # 0 - 1 /\ ChunkN(w) > w.end - w.begin + 1
BufSize(w) == IF Truncates(w) THEN w.end - w.begin + 1 ELSE ChunkN(w)
ErrOf(w) == IF Truncates(w) THEN "EOF" ELSE ChunkE(w)

\* one iteration of the loop of downloadBlock, lines 181-221
ReadChunk(c, i) ==
    /\ variant = "downloader"
    /\ Alive /\ Free
    /\ c \in Cyc /\ i \in Blk(c)
    /\ wk[c][i].pc = "read"
    /\ LET w == wk[c][i]
           n == ChunkN(w)
           bufSize == BufSize(w)
           e == ErrOf(w)
           adv == [w EXCEPT !.begin = w.begin + bufSize,
                            !.rem = w.rem - n, !.src = w.src + n,
                            !.hi = IF w.begin + bufSize > w.hi
                                   THEN w.begin + bufSize ELSE w.hi,
                            !.counted = w.counted + bufSize]
       IN /\ w.begin + bufSize <= FileCap
          /\ \/ \* WriteAt fails, lines 203-205
                /\ bufSize > 0
                /\ faults < MaxFaults
                /\ faults' = faults + 1
                /\ wk' = SetW(c, i, FailRec(w))
                /\ cycles' = Returned(c, FailRec(w))
                /\ handlers' = Emit(handlers, "onError")
                /\ UNCHANGED <<file, wcount, Downloaded>>
             \/ \* the chunk is written and counted, lines 200-212
                /\ file' = WriteAt(file, w.begin, bufSize, w.src)
                /\ wcount' = CountAt(wcount, w.begin, bufSize)
                /\ Downloaded' = Downloaded + bufSize
                /\ faults' = faults
                /\ handlers' = IF e \in {"nil", "EOF"} THEN handlers
                               ELSE Emit(handlers, "onError")
                /\ LET w2 == IF e = "nil" THEN adv
                             ELSE IF e = "EOF" THEN OkRec(adv)
                             ELSE FailRec(adv)
                   IN /\ wk' = SetW(c, i, w2)
                      /\ cycles' = Returned(c, w2)
    /\ UNCHANGED <<cli, ctor, variant, MaxThread, Length, Size, BlockList, Speeds,
                   paused, stopChan, server, started>>

\* line 145: the backoff sleep is over
Wake(c, i) ==
    /\ variant = "downloader"
    /\ Alive /\ Free
    /\ c \in Cyc /\ i \in Blk(c)
    /\ wk[c][i].pc = "sleep"
    /\ wk' = SetW(c, i, [wk[c][i] EXCEPT !.pc = "call"])
    /\ UNCHANGED <<cli, ctor, handlers, variant, MaxThread, Length, Size, BlockList, Downloaded,
                   Speeds, paused, stopChan, file, wcount, server, faults, started, cycles>>

----------------------------------------------------------------------------
(* src/downloader.go: updateSpeeds, lines 265-285 *)

\* lines 266-268: old := Downloaded
SamplerInit(c) ==
    /\ variant = "downloader"
    /\ Alive /\ Free
    /\ c \in Cyc
    /\ cycles[c].sampler = "init"
    /\ cycles' = [cycles EXCEPT ![c].sampler = "run", ![c].old = Downloaded]
    /\ UNCHANGED <<cli, ctor, handlers, variant, MaxThread, Length, Size, BlockList, Downloaded,
                   Speeds, paused, stopChan, file, wcount, server, faults, started, wk>>

\* lines 277-282: a tick
Tick(c) ==
    /\ variant = "downloader"
    /\ Alive /\ Free
    /\ c \in Cyc
    /\ cycles[c].sampler = "run"
    /\ Speeds' = (Downloaded - cycles[c].old) * 10
    /\ cycles' = [cycles EXCEPT ![c].old = Downloaded]
    /\ UNCHANGED <<cli, ctor, handlers, variant, MaxThread, Length, Size, BlockList, Downloaded,
                   paused, stopChan, file, wcount, server, faults, started, wk>>

\* lines 275-276: stopChan is closed
SamplerStop(c) ==
    /\ variant = "downloader"
    /\ Alive /\ Free
    /\ c \in Cyc
    /\ cycles[c].sampler = "run"
    /\ stopChan = "closed"
    /\ cycles' = [cycles EXCEPT ![c].sampler = "exit"]
    /\ UNCHANGED <<cli, ctor, handlers, variant, MaxThread, Length, Size, BlockList, Downloaded,
                   Speeds, paused, stopChan, file, wcount, server, faults, started, wk>>

----------------------------------------------------------------------------
(* Specification of src/downloader.go *)

Next ==
    \/ Start
    \/ \E c \in Cyc : Join(c)
    \/ \E c \in Cyc : \E i \in Blk(c) : Request(c, i)
    \/ \E c \in Cyc : \E i \in Blk(c) : ReadChunk(c, i)
    \/ \E c \in Cyc : \E i \in Blk(c) : Wake(c, i)
    \/ \E c \in Cyc : SamplerInit(c)
    \/ \E c \in Cyc : Tick(c)
    \/ \E c \in Cyc : SamplerStop(c)
    \/ ServerDown

Spec == Init /\ [][Next]_vars

----------------------------------------------------------------------------
(* part_005: the controller *)

\* the caller calls Start and Resume when no cycle is running: it has seen
\* the event of the cycle before (spec 4.4, Pause)
Quiescent == \A c \in Cyc : cycles[c].pc \in {"done", "error"}

\* Start, line 80-81: the call only starts a goroutine
Start5 ==
    /\ variant = "part_005"
    /\ Alive /\ Free
    /\ Quiescent
    /\ \A c \in Cyc : cycles[c].kind # "start"
    /\ cycles' = Append(cycles, NewCycle("start", "spawn", 0, "none"))
    /\ wk' = Append(wk, <<>>)
    /\ UNCHANGED <<cli, ctor, handlers, variant, MaxThread, Length, Size, BlockList, Downloaded,
                   Speeds, paused, stopChan, file, wcount, server, faults, started>>

\* the goroutine of Start, lines 82-101, with the spawning part of download,
\* lines 110-129: plan, touch(onStart), start the sampler and the workers
StartRun5(c) ==
    /\ variant = "part_005"
    /\ Alive /\ Free
    /\ c \in Cyc
    /\ cycles[c].kind = "start"
    /\ cycles[c].pc = "spawn"
    /\ LET bl == RangePlan5(BlockList, Size, MaxThread)
       IN /\ BlockList' = bl
          /\ cycles' = [cycles EXCEPT ![c] = NewCycle("start", "wait", Len(bl), "init")]
          /\ wk' = [wk EXCEPT ![c] = [i \in 1..Len(bl) |-> NewWorker]]
    /\ Size' = SizeAfterPlan(Size)
    /\ started' = started + 1
    /\ handlers' = Emit(handlers, "onStart")
    /\ UNCHANGED <<cli, ctor, variant, MaxThread, Length, Downloaded, Speeds, paused,
                   stopChan, file, wcount, server, faults>>

\* Pause, lines 252-254
Pause ==
    /\ variant = "part_005"
    /\ Alive /\ Free
    /\ cycles # <<>>
    /\ paused = FALSE
    /\ paused' = TRUE
    /\ UNCHANGED <<cli, ctor, handlers, variant, MaxThread, Length, Size, BlockList, Downloaded,
                   Speeds, stopChan, file, wcount, server, faults, started,
                   cycles, wk>>

\* Resume, lines 257-259: clear the flag and start a goroutine
Resume ==
    /\ variant = "part_005"
    /\ Alive /\ Free
    /\ Quiescent
    /\ Cardinality({c \in Cyc : cycles[c].kind = "resume"}) < MaxResume
    /\ paused' = FALSE
    /\ cycles' = Append(cycles, NewCycle("resume", "spawn", 0, "none"))
    /\ wk' = Append([c \in DOMAIN wk |-> <<>>], <<>>)  \* the old goroutines are gone
    /\ UNCHANGED <<cli, ctor, handlers, variant, MaxThread, Length, Size, BlockList, Downloaded,
                   Speeds, stopChan, file, wcount, server, faults, started>>

\* the goroutine of Resume, lines 260-270, with the spawning part of
\* download: an error event when BlockList is nil, else touch(onResume),
\* the sampler and one worker per block
ResumeRun5_NoCheck(c) ==
    /\ variant = "part_005"
    /\ Alive /\ Free
    /\ c \in Cyc
    /\ cycles[c].kind = "resume"
    /\ cycles[c].pc = "spawn"
    /\ cycles' = [cycles EXCEPT
          ![c] = NewCycle("resume", "wait", Len(BlockList), "init")]
    /\ wk' = [wk EXCEPT ![c] = [i \in 1..Len(BlockList) |-> NewWorker]]
    /\ handlers' = Emit(handlers, "onResume")
    /\ UNCHANGED <<cli, ctor, variant, MaxThread, Length, Size, BlockList, Downloaded,
                   Speeds, paused, stopChan, file, wcount, server, faults, started>>

ResumeRun5(c) ==
    /\ variant = "part_005"
    /\ Alive /\ Free
    /\ c \in Cyc
    /\ cycles[c].kind = "resume"
    /\ cycles[c].pc = "spawn"
    /\ IF BlockList = <<>>
       THEN /\ cycles' = [cycles EXCEPT ![c].pc = "error"]
            /\ wk' = wk
       ELSE /\ cycles' = [cycles EXCEPT
                ![c] = NewCycle("resume", "wait", Len(BlockList), "init")]
            /\ wk' = [wk EXCEPT ![c] = [i \in 1..Len(BlockList) |-> NewWorker]]
    /\ handlers' = Emit(handlers, IF BlockList = <<>> THEN "onError" ELSE "onResume")
    /\ UNCHANGED <<cli, ctor, variant, MaxThread, Length, Size, BlockList, Downloaded,
                   Speeds, paused, stopChan, file, wcount, server, faults, started>>

\* lines 131-133: MaxThread values have been received from ok
BarrierOpen5(cy) == cy.ok >= MaxThread

\* download without the test of line 135: always the finish event
Join5_NoFlag(c) ==
    /\ variant = "part_005"
    /\ Alive /\ Free
    /\ c \in Cyc
    /\ cycles[c].pc = "wait"
    /\ BarrierOpen5(cycles[c])
    /\ cycles' = [cycles EXCEPT ![c].pc = "done", ![c].event = "finish"]
    /\ paused' = TRUE
    /\ handlers' = Emit(handlers, "onFinish")
    /\ UNCHANGED <<cli, ctor, variant, MaxThread, Length, Size, BlockList, Downloaded,
                   Speeds, stopChan, file, wcount, server, faults, started, wk>>

\* download, lines 131-142: after the barrier, the pause event if f.paused,
\* else f.paused = true and the finish event
Join5(c) ==
    /\ variant = "part_005"
    /\ Alive /\ Free
    /\ c \in Cyc
    /\ cycles[c].pc = "wait"
    /\ BarrierOpen5(cycles[c])
    /\ IF paused
       THEN /\ cycles' = [cycles EXCEPT ![c].pc = "done", ![c].event = "pause"]
            /\ paused' = paused
       ELSE /\ cycles' = [cycles EXCEPT ![c].pc = "done", ![c].event = "finish"]
            /\ paused' = TRUE
    /\ handlers' = Emit(handlers, IF paused THEN "onPause" ELSE "onFinish")
    /\ UNCHANGED <<cli, ctor, variant, MaxThread, Length, Size, BlockList, Downloaded,
                   Speeds, stopChan, file, wcount, server, faults, started, wk>>

----------------------------------------------------------------------------
(* part_005: the worker goroutine, lines 114-128, and downloadBlock *)

\* lines 121-125: downloadBlock returned an error: touchOnError, then
\* continue, whatever the number of errors so far
Retry5(w) == [w EXCEPT !.pc = "call", !.errs = SatA(w.errs)]

\* the deferred ok <- true of a goroutine that has returned, lines 115-117
Returned5(c, w) ==
    IF w.pc = "done" THEN [cycles EXCEPT ![c].ok = cycles[c].ok + 1] ELSE cycles

\* downloadBlock, lines 148-165: build and send the request from the
\* block's current Begin
Request5(c, i) ==
    /\ variant = "part_005"
    /\ Alive /\ Free
    /\ c \in Cyc /\ i \in Blk(c)
    /\ wk[c][i].pc = "call"
    /\ LET w == wk[c][i]
           b == BlockList[i].Begin
           e == BlockList[i].End
           h == IF w.hi = 0 - 1 THEN b ELSE w.hi
           w1 == [w EXCEPT !.attempts = SatA(w.attempts),
                           !.begin = b, !.end = e,
                           !.orig = IF w.orig = 0 - 1 THEN b ELSE w.orig,
                           !.hi = h, !.req = b, !.reqHi = h]
       IN \E r \in Responses(b, e) :
             /\ faults' = FaultsAfter(r, b, e)
             /\ handlers' = IF r.conn THEN handlers ELSE Emit(handlers, "onError")
             /\ wk' = SetW(c, i, IF r.conn
                                 THEN [w1 EXCEPT !.pc = "read", !.rem = r.len,
                                                 !.src = r.from, !.fin = r.fin]
                                 ELSE Retry5(w1))
    /\ UNCHANGED <<cli, ctor, variant, MaxThread, Length, Size, BlockList, Downloaded,
                   Speeds, paused, stopChan, file, wcount, server, started, cycles>>

\* lines 177-193: the bytes still needed are computed from the block itself
NeedSize5(i) == BlockList[i].End + 1 - BlockList[i].Begin
Truncates5(i, w) == w.end # 0 - 1 /\ ChunkN(w) > NeedSize5(i)
BufSize5(i, w) == IF Truncates5(i, w) THEN NeedSize5(i) ELSE ChunkN(w)
ErrOf5(i, w) == IF Truncates5(i, w) THEN "EOF" ELSE ChunkE(w)

\* one iteration of the loop of downloadBlock up to the load of
\* f.status.Downloaded, lines 169-198: the pause check, Read, the cut,
\* WriteAt (its error is dropped)
ReadChunk5(c, i) ==
    /\ variant = "part_005"
    /\ Alive /\ Free
    /\ c \in Cyc /\ i \in Blk(c)
    /\ wk[c][i].pc = "read"
    /\ LET w == wk[c][i]
           n == ChunkN(w)
           bufSize == BufSize5(i, w)
           at == BlockList[i].Begin
       IN IF paused
          THEN \* lines 169-172: paused, return nil
               /\ wk' = SetW(c, i, Gone(w, "paused"))
               /\ cycles' = [cycles EXCEPT ![c].ok = cycles[c].ok + 1]
               /\ UNCHANGED <<file, wcount, faults>>
          ELSE IF bufSize < 0
          THEN \* buf[:n] with a negative n: slice bounds out of range
               /\ wk' = SetW(c, i, [w EXCEPT !.pc = "panic"])
               /\ UNCHANGED <<file, wcount, faults, cycles>>
          ELSE /\ at + bufSize <= FileCap
               /\ \/ /\ ~cli.closed
                     /\ file' = WriteAt(file, at, bufSize, w.src)
                     /\ wcount' = CountAt(wcount, at, bufSize)
                     /\ faults' = faults
                  \/ \* the file has been closed: WriteAt fails
                     /\ cli.closed
                     /\ UNCHANGED <<file, wcount, faults>>
                  \/ \* WriteAt fails and nobody looks at its error
                     /\ bufSize > 0
                     /\ server = "up"
                     /\ faults < MaxFaults
                     /\ faults' = faults + 1
                     /\ UNCHANGED <<file, wcount>>
               /\ wk' = SetW(c, i, [w EXCEPT !.pc = "store",
                                             !.buf = bufSize, !.pe = ErrOf5(i, w),
                                             !.ld = Downloaded,
                                             !.rem = w.rem - n, !.src = w.src + n,
                                             !.hi = IF at + bufSize > w.hi
                                                    THEN at + bufSize ELSE w.hi])
               /\ cycles' = cycles
    /\ UNCHANGED <<cli, ctor, handlers, variant, MaxThread, Length, Size, BlockList, Downloaded,
                   Speeds, paused, stopChan, server, started>>

\* lines 198-207: the stores of f.status.Downloaded += bufSize and of
\* f.BlockList[id].Begin += bufSize, then the test of e
Store5(c, i) ==
    /\ variant = "part_005"
    /\ Alive /\ Free
    /\ c \in Cyc /\ i \in Blk(c)
    /\ wk[c][i].pc = "store"
    /\ LET w == wk[c][i]
           w1 == [w EXCEPT !.counted = w.counted + w.buf, !.buf = 0,
                           !.pe = "nil", !.ld = 0]
           w2 == IF w.pe = "nil" THEN [w1 EXCEPT !.pc = "read"]
                 ELSE IF w.pe = "EOF" THEN Gone(w1, "ok")
                 ELSE Retry5(w1)
       IN /\ Downloaded' = w.ld + w.buf
          /\ BlockList' = [BlockList EXCEPT ![i].Begin = BlockList[i].Begin + w.buf]
          /\ wk' = SetW(c, i, w2)
          /\ cycles' = Returned5(c, w2)
    /\ handlers' = IF wk[c][i].pe \in {"nil", "EOF"} THEN handlers
                   ELSE Emit(handlers, "onError")
    /\ UNCHANGED <<cli, ctor, variant, MaxThread, Length, Size, Speeds, paused, stopChan,
                   file, wcount, server, faults, started>>

----------------------------------------------------------------------------
(* part_005: startGetSpeeds, lines 231-244 *)

\* line 233: old = Downloaded
SamplerInit5(c) ==
    /\ variant = "part_005"
    /\ Alive /\ Free
    /\ c \in Cyc
    /\ cycles[c].sampler = "init"
    /\ cycles' = [cycles EXCEPT ![c].sampler = "run", ![c].old = Downloaded]
    /\ UNCHANGED <<cli, ctor, handlers, variant, MaxThread, Length, Size, BlockList, Downloaded,
                   Speeds, paused, stopChan, file, wcount, server, faults,
                   started, wk>>

\* lines 235-239: the test of f.paused, then the sleep
SamplerCheck5(c) ==
    /\ variant = "part_005"
    /\ Alive /\ Free
    /\ c \in Cyc
    /\ cycles[c].sampler = "run"
    /\ IF paused
       THEN /\ Speeds' = 0
            /\ cycles' = [cycles EXCEPT ![c].sampler = "exit"]
       ELSE /\ Speeds' = Speeds
            /\ cycles' = [cycles EXCEPT ![c].sampler = "sleep"]
    /\ UNCHANGED <<cli, ctor, handlers, variant, MaxThread, Length, Size, BlockList, Downloaded,
                   paused, stopChan, file, wcount, server, faults, started, wk>>

\* lines 240-241: after the sleep
Tick5(c) ==
    /\ variant = "part_005"
    /\ Alive /\ Free
    /\ c \in Cyc
    /\ cycles[c].sampler = "sleep"
    /\ Speeds' = Downloaded - cycles[c].old
    /\ cycles' = [cycles EXCEPT ![c].sampler = "run", ![c].old = Downloaded]
    /\ UNCHANGED <<cli, ctor, handlers, variant, MaxThread, Length, Size, BlockList, Downloaded,
                   paused, stopChan, file, wcount, server, faults, started, wk>>

----------------------------------------------------------------------------
(* Specification of part_005.  The sampler goroutines write only Speeds   *)
(* and their own old, which nothing else reads: Spec5 leaves their steps  *)
(* out, Spec5S has them.                                                   *)

Init5 == InitWith({"part_005"})

Next5 ==
    \/ Start5
    \/ Pause
    \/ Resume
    \/ ServerDown
    \/ \E c \in Cyc : StartRun5(c)
    \/ \E c \in Cyc : ResumeRun5(c)
    \/ \E c \in Cyc : Join5(c)
    \/ \E c \in Cyc : \E i \in Blk(c) : Request5(c, i)
    \/ \E c \in Cyc : \E i \in Blk(c) : ReadChunk5(c, i)
    \/ \E c \in Cyc : \E i \in Blk(c) : Store5(c, i)

Spec5 == Init5 /\ [][Next5]_vars

\* the goroutines of part_005 are scheduled fairly; the caller and the
\* server are not obliged to do anything
Fair5 ==
    /\ \A c \in 1..(MaxResume + 1) :
          /\ WF_vars(StartRun5(c))
          /\ WF_vars(ResumeRun5(c))
          /\ WF_vars(Join5(c))
    /\ \A c \in 1..(MaxResume + 1) : \A i \in 1..MaxT :
          /\ WF_vars(Request5(c, i))
          /\ WF_vars(ReadChunk5(c, i))
          /\ WF_vars(Store5(c, i))

FairSpec5 == Spec5 /\ Fair5

NextS5 ==
    \/ Next5
    \/ \E c \in Cyc : SamplerInit5(c)
    \/ \E c \in Cyc : SamplerCheck5(c)
    \/ \E c \in Cyc : Tick5(c)

Spec5S == Init5 /\ [][NextS5]_vars

\* both engines with their samplers, one worker per cycle
InitSampler == InitWith({"downloader", "part_005"}) /\ MaxThread = 1

NextSampler == Next \/ NextS5

SpecSampler == InitSampler /\ [][NextSampler]_vars

----------------------------------------------------------------------------
(* NewFileDownloader: src/downloader.go 73-98, part_005 24-47 *)

\* what http.Head can answer: it fails, or it gives a response whose
\* ContentLength is -1 (unknown), 0 or positive
HeadAnswers ==
    {[ok |-> FALSE, len |-> 0]}
        \cup {[ok |-> TRUE, len |-> n] : n \in (0 - 1)..CtorMaxSize}

\* the function: size is the argument, head the answer http.Head would
\* give; task says whether a task is returned (else nil and an error),
\* headed whether the HEAD request was made
NewTask_NoCheck(size, head) ==
    IF size <= 0 /\ ~head.ok
    THEN [task |-> FALSE, Size |-> 0, headed |-> TRUE]
    ELSE LET sz == IF size <= 0 THEN head.len ELSE size
         IN [task |-> TRUE, Size |-> sz, headed |-> size <= 0]

NewTask(size, head) ==
    IF size <= 0 /\ ~head.ok
    THEN [task |-> FALSE, Size |-> 0, headed |-> TRUE]
    ELSE LET sz == IF size <= 0 THEN head.len ELSE size
         IN IF sz <= 0
            THEN [task |-> FALSE, Size |-> 0, headed |-> size <= 0]
            ELSE [task |-> TRUE, Size |-> sz, headed |-> size <= 0]

\* the call
NewFileDownloader ==
    /\ ctor.pc = "call"
    /\ LET r == NewTask(ctor.size, ctor.head)
       IN /\ ctor' = [ctor EXCEPT !.headed = r.headed,
                                  !.pc = IF r.task THEN "task" ELSE "error"]
          /\ Size' = r.Size
    /\ UNCHANGED <<cli, handlers, variant, MaxThread, Length, BlockList, Downloaded,
                   Speeds, paused, stopChan, file, wcount, server, faults,
                   started, cycles, wk>>

\* before the call: any size argument, any HEAD answer
InitNew ==
    /\ variant \in {"downloader", "part_005"}
    /\ ctor \in [size : (0 - CtorMaxSize)..CtorMaxSize, head : HeadAnswers,
                  headed : {FALSE}, pc : {"call"}]
    /\ handlers = NoHandlers
    /\ cli = NoCli
    /\ MaxThread = 1
    /\ Length = 1
    /\ Size = 0
    /\ BlockList = <<>>
    /\ Downloaded = 0
    /\ Speeds = 0
    /\ paused = FALSE
    /\ stopChan = "open"
    /\ file = [o \in 0..(FileCap - 1) |-> NoByte]
    /\ wcount = [o \in 0..(FileCap - 1) |-> 0]
    /\ server = "up"
    /\ faults = 0
    /\ started = 0
    /\ cycles = <<>>
    /\ wk = <<>>

NextNew == NewFileDownloader

SpecNew == InitNew /\ [][NextNew]_vars

----------------------------------------------------------------------------
(* Callbacks *)

\* the callback goroutines of a slot return; nothing obliges them to
CallbackReturn(s) ==
    /\ handlers[s].busy
    /\ handlers' = [handlers EXCEPT ![s].busy = FALSE, ![s].inline = FALSE]
    /\ UNCHANGED <<cli, ctor, variant, MaxThread, Length, Size, BlockList, Downloaded,
                   Speeds, paused, stopChan, file, wcount, server, faults,
                   started, cycles, wk>>

\* both engines on a resource of one byte, one worker per cycle, with every
\* callback registered or none
InitEmit == InitHandlers({"downloader", "part_005"}, {NoHandlers, AllHandlers})
            /\ MaxThread = 1 /\ Length = 1

NextEmit ==
    \/ Next
    \/ Next5
    \/ \E s \in Slots : CallbackReturn(s)

SpecEmit == InitEmit /\ [][NextEmit]_vars

\* a step of a goroutine of the engine: neither the caller, nor the
\* server, nor a callback
EngineStep ==
    \/ \E c \in Cyc : Join(c)
    \/ \E c \in Cyc : \E i \in Blk(c) : Request(c, i) \/ ReadChunk(c, i) \/ Wake(c, i)
    \/ \E c \in Cyc : StartRun5(c) \/ ResumeRun5(c) \/ Join5(c)
    \/ \E c \in Cyc : \E i \in Blk(c) : Request5(c, i) \/ ReadChunk5(c, i) \/ Store5(c, i)

\* the engine goes on while one of its goroutines can run; no fairness
\* for the callbacks
FairSpecEmit == SpecEmit /\ WF_vars(EngineStep)

----------------------------------------------------------------------------
(* Both engines *)

InitAll == InitWith({"downloader", "part_005"})

NextAll == Next \/ Next5

SpecAll == InitAll /\ [][NextAll]_vars

----------------------------------------------------------------------------
(* Specification of the range planner alone: sizes and thread counts up to *)
(* the real MaxThread values (8 and 16)                                    *)

InitPlan ==
    /\ variant \in {"downloader", "part_005"}
    /\ ctor = NoCtor
    /\ handlers = NoHandlers
    /\ cli = NoCli
    /\ MaxThread \in 1..PlanMaxT
    /\ Size \in 1..PlanMaxSize
    /\ Length = Size
    /\ BlockList = <<>>
    /\ Downloaded = 0
    /\ Speeds = 0
    /\ paused = FALSE
    /\ stopChan = "open"
    /\ file = [o \in 0..(FileCap - 1) |-> NoByte]
    /\ wcount = [o \in 0..(FileCap - 1) |-> 0]
    /\ server = "up"
    /\ faults = 0
    /\ started = 0
    /\ cycles = <<>>
    /\ wk = <<>>

\* the planning part of Start of src/downloader.go, lines 105-118
PlanStart ==
    /\ variant = "downloader"
    /\ BlockList = <<>>
    /\ BlockList' = RangePlan(BlockList, Size, MaxThread)
    /\ Size' = SizeAfterPlan(Size)
    /\ UNCHANGED <<cli, ctor, handlers, variant, MaxThread, Length, Downloaded, Speeds, paused,
                   stopChan, file, wcount, server, faults, started, cycles, wk>>

\* the planning part of Start of part_005, lines 82-97
PlanStart5 ==
    /\ variant = "part_005"
    /\ BlockList = <<>>
    /\ BlockList' = RangePlan5(BlockList, Size, MaxThread)
    /\ Size' = SizeAfterPlan(Size)
    /\ UNCHANGED <<cli, ctor, handlers, variant, MaxThread, Length, Downloaded, Speeds, paused,
                   stopChan, file, wcount, server, faults, started, cycles, wk>>

NextPlan == PlanStart \/ PlanStart5

SpecPlan == InitPlan /\ [][NextPlan]_vars

----------------------------------------------------------------------------
(* Properties *)

\* all worker goroutines spawned so far
AllW == UNION {{<<c, i>> : i \in Blk(c)} : c \in Cyc}

\* the blocks were planned from a known size (S > 0): the last End is S - 1
KnownSize == BlockList # <<>> /\ BlockList[Len(BlockList)].End # 0 - 1

PlanOK(bl, S, T) ==
    /\ Len(bl) = T
    /\ \A i \in 1..T :
          /\ bl[i].Begin = (i - 1) * (S \div T)
          /\ bl[i].End = IF i = T THEN S - 1 ELSE i * (S \div T) - 1
    /\ \A o \in 0..(S - 1) :
          Cardinality({i \in 1..T : bl[i].Begin <= o /\ o <= bl[i].End}) = 1
    /\ \A i \in 1..T : \A o \in bl[i].Begin..bl[i].End : o >= 0 /\ o <= S - 1
    /\ SumLen(bl) = S

\* C1: for every S > 0 and T > 0 the planned BlockList has T blocks, block i
\* is [i*(S/T), (i+1)*(S/T)-1] with the last End corrected to S-1, and the
\* blocks partition [0, S-1]: every offset in exactly one block, none
\* outside, lengths summing to S.
C1_Partition == BlockList # <<>> => PlanOK(BlockList, Size, MaxThread)

\* a plan whose last block absorbs a remainder: S = 10, T = 4
C1_Witness ==
    /\ Size = 10 /\ MaxThread = 4 /\ Len(BlockList) = 4
    /\ BlockList[3] = [Begin |-> 4, End |-> 5]
    /\ BlockList[4] = [Begin |-> 6, End |-> 9]

\* C2: the worker of an empty block (Begin > End, produced when S < T)
\* writes no byte and adds nothing to Downloaded.
C2_EmptyBlockNoOp ==
    \A ci \in AllW :
        LET b == BlockList[ci[2]] w == wk[ci[1]][ci[2]]
        IN (KnownSize /\ b.Begin > b.End) => (w.counted = 0 /\ w.hi <= b.Begin)

\* C3: Start on a task of size S > 0 against a well-behaved server: at the
\* finish event Downloaded = S, and there is exactly one finish event.
C3_DownloadedIsSize ==
    \A c \in Cyc :
        (cycles[c].event = "finish" /\ KnownSize /\ clean)
            => /\ Downloaded = Size
               /\ Cardinality({d \in Cyc : cycles[d].event = "finish"}) = 1

\* C4: every cycle that has spawned its workers emits exactly one of the
\* events finish, pause, failed: a cycle waiting at its barrier is
\* eventually followed by its terminal event.
C4_OneTerminalEvent ==
    \A c \in 1..(MaxResume + 1) :
        (c \in Cyc /\ cycles[c].pc = "wait" /\ KnownSize)
            ~> (c \in Cyc /\ cycles[c].event \in {"finish", "pause", "failed"})

\* C5: when BlockList has 1 or MaxThread entries, a cycle's terminal event
\* is emitted only after every worker goroutine of the cycle has returned.
C5_EventAfterWorkers ==
    \A c \in Cyc :
        (cycles[c].event # "none" /\ Len(BlockList) \in {1, MaxThread})
            => /\ cycles[c].pc = "done"
               /\ \A i \in Blk(c) : wk[c][i].pc = "done" /\ wk[c][i].result # "none"

\* a terminal event of a cycle of two workers, one of which had to retry
C5_Witness ==
    \E c \in Cyc :
        /\ cycles[c].event # "none"
        /\ Len(BlockList) = 2 /\ Len(wk[c]) = 2
        /\ \E i \in Blk(c) : wk[c][i].attempts >= 2

\* C6: the terminal event after the barrier is pause if a pause was
\* requested, else failed if a block exhausted its retries, else finish; so
\* no finish event for a cycle in which a block permanently failed.
C6_NoFinishAfterFailure ==
    \A c \in Cyc :
        cycles[c].event = "finish"
            => \A i \in Blk(c) : wk[c][i].result # "failed"

\* C7: a block is attempted at most MaxRetries times.
C7_BoundedAttempts ==
    \A ci \in AllW : wk[ci[1]][ci[2]].attempts <= MaxRetries

\* C8: a block that fails permanently stops only its own worker: a step of
\* one worker leaves its siblings' goroutines as they are, a block is
\* marked failed exactly when its own retries are exhausted, a block that
\* succeeded did so within its own retries, and the cycle ends once every
\* block has succeeded or permanently failed.
C8_FailureIsolated ==
    /\ [](\A c \in Cyc :
            /\ \A i \in Blk(c) :
                  LET w == wk[c][i]
                  IN /\ w.result = "failed" <=> (w.pc = "done" /\ w.retries >= MaxRetries)
                     /\ w.result = "ok" => w.retries < MaxRetries
            /\ cycles[c].event = "finish"
                  => \A i \in Blk(c) : wk[c][i].result \in {"ok", "failed"})
    /\ [][\A c \in Cyc : \A i \in Blk(c) : \A j \in Blk(c) :
            (i # j /\ wk'[c][i] # wk[c][i]) => wk'[c][j] = wk[c][j]]_vars

\* a finished cycle in which one block failed permanently and its sibling,
\* after a failed attempt of its own, succeeded
C8_Witness ==
    \E c \in Cyc :
        /\ cycles[c].event = "finish"
        /\ \E i \in Blk(c) : \E j \in Blk(c) :
              /\ wk[c][i].result = "failed"
              /\ wk[c][j].result = "ok" /\ wk[c][j].retries >= 1

\* C9 as stated: an onError event only for a block that exhausted its
\* retries, and exactly one per such block.
C9_Orig ==
    \A ci \in AllW :
        LET w == wk[ci[1]][ci[2]]
        IN w.errs = IF w.result = "failed" THEN 1 ELSE 0

\* C9 amended: one onError event per failed attempt of a block: a block
\* whose attempts failed k times has caused k events, so a block that
\* succeeded at attempt K has caused K - 1 (fewer than MaxRetries in
\* src/downloader.go) and a permanently failed block exactly MaxRetries.
C9_ErrorPerFailedAttempt ==
    \A ci \in AllW :
        LET w == wk[ci[1]][ci[2]]
        IN IF variant = "downloader"
           THEN /\ w.errs = w.retries
                /\ w.result = "failed" => w.errs = MaxRetries
                /\ w.result = "ok" => w.errs < MaxRetries /\ w.errs = w.attempts - 1
           ELSE w.attempts < AttemptCap
                    => w.errs = IF w.pc = "call" THEN w.attempts ELSE w.attempts - 1

\* a block that failed MaxRetries times and gave up: MaxRetries events
C9_Witness ==
    \E ci \in AllW :
        LET w == wk[ci[1]][ci[2]]
        IN w.result = "failed" /\ w.errs = MaxRetries /\ w.attempts = MaxRetries

\* C10: every attempt requests the range from the first byte the block has
\* not yet written (original Begin + bytes written), so no byte is written
\* or counted twice.
C10_NoRefetch ==
    \A ci \in AllW :
        LET w == wk[ci[1]][ci[2]]
        IN (KnownSize /\ w.attempts > 0)
               => (w.req = w.reqHi /\ w.counted = w.hi - w.orig)

\* C11: when the body delivers more bytes than the range of a block with
\* End # -1, the worker cuts the chunk to the bytes still needed, ends the
\* block as a success (no retry, no onError event) and never writes at an
\* offset beyond the block's End.
C11_Truncation ==
    /\ [](\A ci \in AllW :
            LET w == wk[ci[1]][ci[2]] b == BlockList[ci[2]]
            IN b.End # 0 - 1 => w.hi <= b.End + 1)
    /\ [][\A c \in Cyc : \A i \in Blk(c) :
            LET w == wk[c][i]
            IN /\ (variant = "downloader" /\ w.pc = "read" /\ Truncates(w)
                      /\ faults' = faults /\ wk'[c][i] # w)
                    => (wk'[c][i].result = "ok" /\ wk'[c][i].errs = w.errs)
               /\ (variant = "part_005" /\ w.pc = "read" /\ ~paused
                      /\ Truncates5(i, w) /\ wk'[c][i] # w)
                    => (wk'[c][i].pc = "store" /\ wk'[c][i].pe = "EOF"
                          /\ wk'[c][i].buf = NeedSize5(i))
               /\ (variant = "part_005" /\ w.pc = "store" /\ w.pe = "EOF"
                      /\ wk'[c][i] # w)
                    => (wk'[c][i].result = "ok" /\ wk'[c][i].errs = w.errs)]_vars

\* the server ignored the Range header of a block that begins after offset
\* 0: the block holds the first bytes of the body, cut at its End, and its
\* worker succeeded at the first attempt
C11_Witness ==
    \E ci \in AllW :
        LET w == wk[ci[1]][ci[2]] b == BlockList[ci[2]]
        IN /\ b.End = Size - 1 /\ w.orig > 0
           /\ w.result = "ok" /\ w.errs = 0 /\ w.attempts = 1
           /\ file[w.orig] = 0 /\ w.hi = b.End + 1
           /\ file[b.End + 1] = NoByte

\* C12: for S > 0 every write of the worker of block i falls inside
\* [Begin_i, End_i], so no file offset is written by two different workers.
C12_DisjointWrites ==
    \A c \in Cyc : \A i \in Blk(c) :
        LET w == wk[c][i] b == BlockList[i]
        IN (KnownSize /\ w.hi # 0 - 1)
              => /\ b.Begin <= w.orig /\ w.hi <= b.End + 1
                 /\ \A j \in Blk(c) \ {i} :
                       LET v == wk[c][j]
                       IN v.hi # 0 - 1 => (w.hi <= v.orig \/ v.hi <= w.orig)

\* C13: Pause during the transfer, then Resume, against a well-behaved
\* server: a worker that saw the pause returned without an onError event
\* and left its block's Begin at the first byte not yet written; the pause
\* event comes with Downloaded < S; the Resume that follows ends with
\* Downloaded = S, every offset of [0, S-1] written, and one finish event.
C13_PauseResume ==
    \A c \in Cyc :
        (KnownSize /\ clean) =>
          /\ \A i \in Blk(c) :
                wk[c][i].result = "paused"
                   => /\ wk[c][i].errs = 0
                      /\ wk[c][i].hi # 0 - 1 => BlockList[i].Begin = wk[c][i].hi
          /\ (cycles[c].kind = "start" /\ cycles[c].event = "pause"
                 /\ \E i \in Blk(c) : wk[c][i].result = "paused")
                => Downloaded < Size
          /\ (c > 1 /\ cycles[c].kind = "resume" /\ cycles[c].event = "finish"
                 /\ cycles[c - 1].kind = "start" /\ cycles[c - 1].event = "pause")
                => /\ Downloaded = Size
                   /\ \A o \in 0..(Size - 1) : file[o] = o
                   /\ Cardinality({d \in Cyc : cycles[d].event = "finish"}) = 1

\* C14: Resume before any Start (BlockList is nil) is an error: the cycle
\* ends with the error event, it spawns no worker and no sampler, emits no
\* resume, finish or pause event, and nothing is written to the file.
C14_ResumeBeforeStart ==
    \A c \in Cyc :
        (cycles[c].kind = "resume" /\ \A d \in 1..(c - 1) : cycles[d].kind # "start")
            => /\ cycles[c].pc \in {"spawn", "error"}
               /\ cycles[c].event = "none"
               /\ cycles[c].sampler = "none"
               /\ cycles[c].n = 0 /\ wk[c] = <<>>
               /\ (\A d \in Cyc : cycles[d].kind # "start")
                     => /\ BlockList = <<>> /\ Downloaded = 0
                        /\ \A o \in DOMAIN file : file[o] = NoByte

\* the goroutine of a Resume that came before Start has emitted its error
C14_Witness ==
    /\ Len(cycles) = 1
    /\ cycles[1].kind = "resume" /\ cycles[1].pc = "error"

\* C15: finish is terminal: after the finish event of a task a further
\* Start or Resume spawns no worker, changes neither BlockList nor
\* Downloaded, emits no second finish event and does not crash.
C15_FinishTerminal ==
    /\ [](\A c \in Cyc : \A d \in Cyc :
            (c < d /\ cycles[c].event = "finish")
                => /\ cycles[d].n = 0 /\ wk[d] = <<>>
                   /\ cycles[d].event = "none"
                   /\ cycles[d].pc # "panic")
    /\ [][(\E c \in Cyc : cycles[c].event = "finish")
            => (BlockList' = BlockList /\ Downloaded' = Downloaded)]_vars

\* C16: Downloaded never decreases: no step of a worker, of the sampler
\* or of the controller makes it smaller.
C16_DownloadedMonotone == [][Downloaded' >= Downloaded]_vars

\* the bytes the workers of a cycle have added to Downloaded
RECURSIVE SumCounted(_)
SumCounted(ws) == IF ws = <<>> THEN 0 ELSE Head(ws).counted + SumCounted(Tail(ws))

\* C17: no increment of Downloaded is lost: Downloaded is the sum of the
\* chunk lengths the workers have added (stated for the first cycle of a
\* run, whose workers are all on record).
C17_NoLostUpdate ==
    Len(cycles) = 1 => Downloaded = SumCounted(wk[1])

\* C18: the sampler of a cycle stops when the cycle reaches its terminal
\* or pause event: once every cycle so far has emitted its event, Speeds
\* is not updated any more, and at most one sampler is active at any time.
C18_SamplerStops ==
    /\ [](Cardinality({c \in Cyc : cycles[c].sampler \in {"init", "run", "sleep"}}) <= 1)
    /\ [][(Cyc # {} /\ \A c \in Cyc : cycles[c].event # "none")
            => Speeds' = Speeds]_vars

\* C19: emitting an event never blocks the emitter: no goroutine of the
\* engine ever waits inside a callback, an unregistered slot is skipped
\* without effect, and every cycle goes on to its terminal event although
\* no callback is obliged to return (part_005 only while the connection
\* is not broken for good: its workers retry for ever, see C4 and C7).
C19_EmitNeverBlocks ==
    /\ [](\A s \in Slots :
            /\ ~handlers[s].inline
            /\ ~handlers[s].reg => ~handlers[s].busy)
    /\ (\E c \in Cyc : cycles[c].pc \in {"spawn", "wait"})
          ~> \/ \A c \in Cyc : cycles[c].event # "none" \/ cycles[c].pc = "error"
             \/ (variant = "part_005" /\ server = "down")

\* the finish event of a cycle whose onStart callback has still not returned
C19_Witness ==
    \E c \in Cyc :
        /\ cycles[c].event = "finish"
        /\ handlers["onStart"].busy /\ handlers["onFinish"].busy

\* C20: NewFileDownloader with a size argument > 0 uses it without a HEAD
\* request; with an argument <= 0 it takes the content length of the HEAD
\* response; if HEAD fails or the size is still <= 0 it returns an error
\* and no task; so every task it returns has Size > 0.
C20_Construction ==
    /\ ctor.pc = "task"
          => /\ Size > 0
             /\ ctor.size > 0 => (Size = ctor.size /\ ~ctor.headed)
             /\ ctor.size <= 0 => (ctor.headed /\ ctor.head.ok /\ Size = ctor.head.len)
    /\ ctor.pc = "error"
          => /\ ctor.size <= 0 /\ ctor.headed
             /\ ~ctor.head.ok \/ ctor.head.len <= 0
             /\ Size = 0
    /\ ctor.pc \in {"task", "error"}
          => (ctor.pc = "task" <=> (ctor.size > 0 \/ (ctor.head.ok /\ ctor.head.len > 0)))

\* a task whose size was discovered by the HEAD request
C20_Witness ==
    /\ ctor.pc = "task" /\ ctor.size <= 0
    /\ ctor.headed /\ Size = ctor.head.len /\ Size > 1

----------------------------------------------------------------------------
(* The open-ended task, early end of stream, failed writes *)

\* a task planned with Size <= 0: its one block has no end
OpenTask == Len(BlockList) = 1 /\ BlockList[1].End = 0 - 1

\* C21: for a task whose Size is <= 0 at Start the planner produces the one
\* block {0, -1} and sets Size to 1; the worker of that block asks without a
\* Range header, cuts nothing and writes the body from offset 0 up to the
\* end of the stream; the cycle, with that single worker, passes the barrier
\* and emits its terminal event (checked against a server that answers
\* exactly and stays up).
C21_OpenEndedTask ==
    /\ [][(Size <= 0 /\ BlockList = <<>> /\ BlockList' # <<>>)
             => /\ BlockList' = <<[Begin |-> 0, End |-> 0 - 1]>>
                /\ Size' = 1]_vars
    /\ [](\A c \in Cyc : \A i \in Blk(c) :
            (OpenTask /\ cycles[c].kind = "start" /\ clean
             /\ wk[c][i].attempts > 0)
                => /\ wk[c][i].orig = 0 /\ wk[c][i].req = 0
                   /\ wk[c][i].pc \in {"read", "store"}
                        => /\ wk[c][i].end = 0 - 1
                           /\ ~Truncates(wk[c][i])
                           /\ wk[c][i].src + wk[c][i].rem = Length
                   /\ wk[c][i].result = "ok"
                        => /\ wk[c][i].hi = Length
                           /\ \A o \in 0..(Length - 1) : file[o] = o)
    /\ (OpenTask /\ 1 \in Cyc /\ cycles[1].pc = "wait")
          ~> (~clean \/ (1 \in Cyc /\ cycles[1].event \in {"finish", "pause"}))

\* C22: an attempt on a block with End # -1 returns success only when all
\* bytes of the block have been received, the position having reached
\* End + 1; a body that ends before that is not a success of the block.
C22_SuccessIsComplete ==
    \A c \in Cyc : \A i \in Blk(c) :
        (wk[c][i].result = "ok" /\ BlockList[i].End # 0 - 1)
            => wk[c][i].hi = BlockList[i].End + 1

\* C23: Downloaded and the block position advance only for chunks that
\* were written.  A step in which a worker's WriteAt fails ends the attempt
\* with an error and leaves Downloaded and the position as they were, with
\* no addition pending; a step of downloader.go in which n bytes are
\* written adds exactly n to Downloaded and to the position.
C23_CountOnlyWritten ==
    [][\A c \in Cyc : \A i \in Blk(c) :
        /\ (wk[c][i].pc = "read" /\ faults' = faults + 1
            /\ wk'[c][i] # wk[c][i])
              => /\ Downloaded' = Downloaded
                 /\ BlockList' = BlockList
                 /\ wk'[c][i].pc \in {"sleep", "call", "done"}
                 /\ wk'[c][i].result \in {"none", "failed"}
                 /\ wk'[c][i].errs # wk[c][i].errs
                 /\ wk'[c][i].buf = 0
                 /\ wk'[c][i].counted = wk[c][i].counted
        /\ (wk[c][i].pc = "read" /\ variant = "downloader" /\ faults' = faults
            /\ wk'[c][i] # wk[c][i])
              => /\ Downloaded' = Downloaded + BufSize(wk[c][i])
                 /\ wk'[c][i].counted = wk[c][i].counted + BufSize(wk[c][i])
                 /\ wk'[c][i].pc = "read"
                      => wk'[c][i].begin = wk[c][i].begin + BufSize(wk[c][i])
                 /\ \A o \in 0..(FileCap - 1) :
                      (o >= wk[c][i].begin /\ o < wk[c][i].begin + BufSize(wk[c][i]))
                          => file'[o] # NoByte]_vars

----------------------------------------------------------------------------
(* Pause against the end of a cycle *)

\* block i may still have bytes to fetch
Remaining(i) ==
    BlockList[i].End = 0 - 1 \/ BlockList[i].Begin < BlockList[i].End + 1

\* C25 as stated: whenever a cycle of part_005 ends with the pause event,
\* at least one block still has remaining bytes; a cycle whose blocks are
\* all complete ends with the finish event.
C25_Orig ==
    \A c \in Cyc :
        (variant = "part_005" /\ cycles[c].event = "pause")
            => \E i \in 1..Len(BlockList) : Remaining(i)

\* C25, amended: the controller of part_005 decides between the two events
\* by the flag alone, at the moment it tests it after the barrier: the
\* pause event when f.paused is set, the finish event when it is not, and
\* the flag is set after either.
C25_EventByFlag ==
    [][\A c \in Cyc :
        (variant = "part_005" /\ cycles[c].event = "none"
         /\ cycles'[c].event # "none")
            => /\ cycles'[c].event = (IF paused THEN "pause" ELSE "finish")
               /\ paused']_vars

\* a pause event of a cycle all of whose workers ran to the end of their
\* blocks: Pause came after the last worker, before the test
C25_Witness ==
    \E c \in Cyc :
        /\ variant = "part_005"
        /\ cycles[c].event = "pause"
        /\ Downloaded = Size
        /\ \A i \in 1..Len(BlockList) : ~Remaining(i)
        /\ Blk(c) # {}
        /\ \A i \in Blk(c) : wk[c][i].result = "ok"

----------------------------------------------------------------------------
(* Cycles that overlap *)

\* Resume, lines 257-259, called while a cycle is still running: the call
\* itself tests nothing, it clears the flag and starts a goroutine; the
\* goroutines of the running cycle stay
ResumeEarly ==
    /\ variant = "part_005"
    /\ Alive /\ Free
    /\ ~Quiescent
    /\ Cardinality({c \in Cyc : cycles[c].kind = "resume"}) < MaxResume
    /\ paused' = FALSE
    /\ cycles' = Append(cycles, NewCycle("resume", "spawn", 0, "none"))
    /\ wk' = Append(wk, <<>>)
    /\ UNCHANGED <<cli, ctor, handlers, variant, MaxThread, Length, Size, BlockList, Downloaded,
                   Speeds, stopChan, file, wcount, server, faults, started>>

\* part_005 with a caller that does not wait for the event of a cycle
\* before it calls Resume; one block
InitOverlap == InitWith({"part_005"}) /\ MaxThread = 1 /\ Size = Length

NextOverlap == Next5 \/ ResumeEarly

SpecOverlap == InitOverlap /\ [][NextOverlap]_vars

\* a goroutine of cycle c is at work on block i
Active(c, i) == i \in Blk(c) /\ wk[c][i].pc \notin {"done", "panic"}

\* the bytes the workers of cycles 1..c on block i have added to Downloaded
RECURSIVE CountedOn(_, _)
CountedOn(i, c) ==
    IF c = 0 THEN 0
    ELSE (IF i \in Blk(c) THEN wk[c][i].counted ELSE 0) + CountedOn(i, c - 1)

\* C26: in part_005 at most one worker is active on a block at any time,
\* whatever the sequence of Start, Pause and Resume calls; no block's Begin
\* exceeds End + 1 and no byte is counted twice.
C26_OneWorkerPerBlock ==
    \A i \in 1..Len(BlockList) :
        /\ Cardinality({c \in Cyc : Active(c, i)}) <= 1
        /\ BlockList[i].End # 0 - 1 => BlockList[i].Begin <= BlockList[i].End + 1
        /\ (clean /\ BlockList[i].End # 0 - 1)
              => CountedOn(i, Len(wk)) <= BlockList[i].End + 1

----------------------------------------------------------------------------
(* The command line program: multiRangeDownload and the signal goroutine   *)
(* of src/main.go, around a task of part_005.  A send on one of the        *)
(* unbuffered channels exitbyuser, exit and exited is one step together    *)
(* with the receive it meets.                                              *)

\* lines 156-187: OnFinish, OnError and OnStart are registered
CliHandlers ==
    [s \in Slots |-> [reg |-> s \in {"onStart", "onFinish", "onError"},
                      busy |-> FALSE, inline |-> FALSE]]

\* main: multiRangeDownload, "run" from line 189 to _wg.Wait(), "release"
\* at exited <- true, "returned"; sig: the signal goroutine of main(),
\* "idle" at range c, "notify" at exitbyuser <- true, "wait" at <-exited,
\* "delete", "exit"; intr: the goroutine of lines 147-154, "recv", "pause",
\* "send", "done"; wg: the counter of _wg; closed: outfile is closed;
\* blank: the size was 0 at the Stat of line 127; removed: out is deleted
NewCli == [main |-> "run", sig |-> "idle", intr |-> "recv", wg |-> 1,
           closed |-> FALSE, blank |-> FALSE, removed |-> FALSE]

InitCli == InitTask({"part_005"}, {CliHandlers}) /\ cli = NewCli

\* lines 189-190: _wg.Add(1); FileDownloader.Start()
CliStart ==
    /\ cli.main = "run"
    /\ Start5

\* main(), lines 221-222: the signal goroutine takes a SIGINT from c
CliSignal ==
    /\ Alive
    /\ cli.sig = "idle"
    /\ cli' = [cli EXCEPT !.sig = "notify"]
    /\ UNCHANGED <<ctor, handlers, variant, MaxThread, Length, Size, BlockList,
                   Downloaded, Speeds, paused, stopChan, file, wcount, server,
                   faults, started, cycles, wk>>

\* exitbyuser <- true, line 224, meets <-exitbyuser, line 149
CliInterrupt ==
    /\ Alive
    /\ cli.sig = "notify"
    /\ cli.intr = "recv"
    /\ cli' = [cli EXCEPT !.sig = "wait", !.intr = "pause"]
    /\ UNCHANGED <<ctor, handlers, variant, MaxThread, Length, Size, BlockList,
                   Downloaded, Speeds, paused, stopChan, file, wcount, server,
                   faults, started, cycles, wk>>

\* line 151: FileDownloader.Pause(), which sets the flag and returns
CliPause ==
    /\ Alive
    /\ cli.intr = "pause"
    /\ paused' = TRUE
    /\ cli' = [cli EXCEPT !.intr = "send"]
    /\ UNCHANGED <<ctor, handlers, variant, MaxThread, Length, Size, BlockList,
                   Downloaded, Speeds, stopChan, file, wcount, server, faults,
                   started, cycles, wk>>

\* exit <- true, of line 152 or of the onFinish callback, line 157, meets
\* case <-exit of the loop of the onStart callback, lines 174-179; the
\* callback calls _wg.Done() and returns
CliExit ==
    /\ Alive
    /\ handlers["onStart"].busy
    /\ \/ /\ cli.intr = "send"
          /\ cli' = [cli EXCEPT !.intr = "done", !.wg = 0]
          /\ handlers' = [handlers EXCEPT !["onStart"].busy = FALSE]
       \/ /\ handlers["onFinish"].busy
          /\ cli' = [cli EXCEPT !.wg = 0]
          /\ handlers' = [handlers EXCEPT !["onStart"].busy = FALSE,
                                          !["onFinish"].busy = FALSE]
    /\ UNCHANGED <<ctor, variant, MaxThread, Length, Size, BlockList,
                   Downloaded, Speeds, paused, stopChan, file, wcount, server,
                   faults, started, cycles, wk>>

\* _wg.Wait() of line 191 returns; the deferred function, lines 125-130,
\* takes the size and closes outfile
CliClose ==
    /\ Alive
    /\ cli.main = "run"
    /\ cycles # <<>>
    /\ cli.wg = 0
    /\ cli' = [cli EXCEPT !.main = "release", !.closed = TRUE,
                          !.blank = \A o \in DOMAIN file : file[o] = NoByte]
    /\ UNCHANGED <<ctor, handlers, variant, MaxThread, Length, Size, BlockList,
                   Downloaded, Speeds, paused, stopChan, file, wcount, server,
                   faults, started, cycles, wk>>

\* exited <- true, line 132, meets <-exited, line 226; multiRangeDownload
\* removes a blank file, lines 135-137, and returns
CliAck ==
    /\ Alive
    /\ cli.main = "release"
    /\ cli.sig = "wait"
    /\ cli' = [cli EXCEPT !.main = "returned", !.sig = "delete",
                          !.removed = cli.blank]
    /\ UNCHANGED <<ctor, handlers, variant, MaxThread, Length, Size, BlockList,
                   Downloaded, Speeds, paused, stopChan, file, wcount, server,
                   faults, started, cycles, wk>>

\* lines 227-228: delete(outfile); os.Exit(69)
CliDelete ==
    /\ cli.sig = "delete"
    /\ cli' = [cli EXCEPT !.sig = "exit", !.removed = TRUE]
    /\ UNCHANGED <<ctor, handlers, variant, MaxThread, Length, Size, BlockList,
                   Downloaded, Speeds, paused, stopChan, file, wcount, server,
                   faults, started, cycles, wk>>

\* the program and the goroutines of its task; the task is never resumed
NextCli ==
    \/ CliStart
    \/ CliSignal
    \/ CliInterrupt
    \/ CliPause
    \/ CliExit
    \/ CliClose
    \/ CliAck
    \/ CliDelete
    \/ ServerDown
    \/ CallbackReturn("onError")
    \/ \E c \in Cyc : StartRun5(c)
    \/ \E c \in Cyc : Join5(c)
    \/ \E c \in Cyc : \E i \in Blk(c) : Request5(c, i)
    \/ \E c \in Cyc : \E i \in Blk(c) : ReadChunk5(c, i)
    \/ \E c \in Cyc : \E i \in Blk(c) : Store5(c, i)

SpecCli == InitCli /\ [][NextCli]_vars

\* C24: the interrupt handshake of the command line program.  The output
\* file is closed only after the cycle has emitted its event, with every
\* worker stopped: never while a worker may still write; and on a
\* completion without interrupt the release of the file does not block:
\* multiRangeDownload is never left waiting at exited <- true with the
\* signal goroutine idle.
C24_InterruptHandshake ==
    /\ cli.closed
          => /\ Cyc # {}
             /\ \A c \in Cyc : cycles[c].pc = "done" /\ cycles[c].event # "none"
             /\ \A c \in Cyc : \A i \in Blk(c) : ~Active(c, i)
    /\ ~(cli.main = "release" /\ cli.sig = "idle")

====
